---- MODULE Spec2Model ----
(***************************************************************************)
(* A model of the chat-framed websocket client (client.py, protocol.py,    *)
(* receivers.py, senders.py, messages.py, errors.py).                      *)
(*                                                                         *)
(* One behaviour is one invocation of one facade operation.  The main task *)
(* (Client.call, chat, Receiver.chain) and the sender task created by      *)
(* chain are the two cooperative tasks; the server is the environment: the *)
(* frame a read returns is chosen when the read completes, which is the    *)
(* order in which the server emitted it (the transport is FIFO).           *)
(*                                                                         *)
(* A wire frame is a record: json says whether the text is a JSON object,  *)
(* has is the set of keys it holds, the other fields are the values of the *)
(* keys it holds.  The per-frame `id` is always fresh and is left out.     *)
(***************************************************************************)
EXTENDS Naturals, Sequences, FiniteSets, TLC

VARIABLES op, data, chatId, pc, transport, peer, sender, outbound,
          received, lastReadAt, yielded, result, err, errPhase, connects,
          applied, returned, request_message

vars == <<op, data, chatId, pc, transport, peer, sender, outbound,
          received, lastReadAt, yielded, result, err, errPhase, connects,
          applied, returned, request_message>>

\* what only the functions applied on their own and the operations module use:
\* the function under application with its arguments, what it returned (a
\* sequence that is empty until it returns), and
\* the request message of operations.request
other == <<applied, returned, request_message>>

(***************************************************************************)
(* Bounds of the model.                                                    *)
(***************************************************************************)
\* longest source handed to a stream sender
MaxSource == 2
\* most payloads a stream receiver yields before the server must end the stream
MaxYield == 2

ChatIds == {"c1", "c2"}
Payloads == {"p", "q"}
Codes == {123, 7}
Reasons == {"foo"}

\* Optional[UUID] None, and a key the JSON object does not hold
None == "None"

(***************************************************************************)
(* errors.py                                                               *)
(***************************************************************************)
NoError == [kind |-> "none", code |-> 0, reason |-> ""]

ProtocolError(reason) == [kind |-> "ProtocolError", code |-> 0, reason |-> reason]

AppError(code, reason) == [kind |-> "AppError", code |-> code, reason |-> reason]

INVALID_MESSAGE_ERROR == ProtocolError("Invalid message received.")

CONVERSATION_ERROR == ProtocolError("Received incompatible conversation id.")

\* what the transport raises (websockets' ConnectionClosed, OSError): not translated
TransportError == [kind |-> "TransportError", code |-> 0, reason |-> ""]

\* what the caller's source raises while the stream sender iterates it
SourceError == [kind |-> "SourceError", code |-> 0, reason |-> ""]

\* GeneratorExit thrown into the operation's generator when the consumer drops it
GeneratorExit == [kind |-> "GeneratorExit", code |-> 0, reason |-> ""]

(***************************************************************************)
(* messages.py: the frames and their wire form                             *)
(***************************************************************************)
Frame(has, type, chat, payload, code, reason) ==
    [json |-> TRUE, has |-> has, type |-> type, chatId |-> chat,
     payload |-> payload, code |-> code, reason |-> reason]

StartMessage(chat) == Frame({"type", "chatId"}, "start", chat, None, 0, "")

StopMessage(chat) == Frame({"type", "chatId"}, "stop", chat, None, 0, "")

DataMessage(chat, payload) ==
    Frame({"type", "chatId", "payload"}, "data", chat, payload, 0, "")

StreamEndMessage(chat) == Frame({"type", "chatId"}, "stream-end", chat, None, 0, "")

AppErrorMessage(chat, code, reason) ==
    Frame({"type", "chatId", "code", "reason"}, "app-error", chat, None, code, reason)

ProtocolErrorMessage(chat, reason) ==
    Frame(IF chat = None THEN {"type", "reason"} ELSE {"type", "chatId", "reason"},
          "protocol-error", chat, None, 0, reason)

\* a text frame that is no JSON object, such as the literal foo
NotJson == [json |-> FALSE, has |-> {}, type |-> "", chatId |-> None,
            payload |-> None, code |-> 0, reason |-> ""]

\* JSON, the payload type: a union that holds null, so pydantic takes the
\* payload field of DataMessage as optional
JSONAllowsNull == TRUE

\* the keys a variant's model requires (a field with a default is not required)
Required(variant) ==
    CASE variant = "data" -> IF JSONAllowsNull THEN {"chatId"} ELSE {"chatId", "payload"}
      [] variant = "app-error" -> {"chatId", "code", "reason"}
      [] variant = "protocol-error" -> {"reason"}
      [] OTHER -> {"chatId"}

\* message_type.parse_raw(data) succeeds: the text is a JSON object, its type,
\* when it holds one, is the variant's literal, and the required keys are there
Validates(f, variant) ==
    /\ f.json
    /\ ("type" \in f.has => f.type = variant)
    /\ Required(variant) \subseteq f.has

\* parse_raw that leaves the payload at its default
ParseRawDropsPayload(f, variant) ==
    [type |-> variant,
     chatId |-> IF "chatId" \in f.has THEN f.chatId ELSE None,
     payload |-> None,
     code |-> f.code,
     reason |-> f.reason]

\* the model parse_raw builds: absent keys take their defaults
ParseRaw(f, variant) ==
    [type |-> variant,
     chatId |-> IF "chatId" \in f.has THEN f.chatId ELSE None,
     payload |-> IF "payload" \in f.has THEN f.payload ELSE None,
     code |-> f.code,
     reason |-> f.reason]

\* str(error) of a pydantic model: its fields, not the bare reason
StrMessage(m) ==
    "chat_id=" \o m.chatId \o " type='" \o m.type \o "' reason='" \o m.reason \o "'"

(***************************************************************************)
(* protocol.py                                                             *)
(***************************************************************************)
Ok(m) == [ok |-> TRUE, msg |-> m, err |-> NoError]

Raise(e) == [ok |-> FALSE, msg |-> ParseRaw(NotJson, ""), err |-> e]

\* parse_message that takes an app-error frame for any unexpected frame and
\* raises the invalid-message error for it
parse_message_no_app_error(f, message_type) ==
    IF Validates(f, message_type) THEN Ok(ParseRaw(f, message_type))
    ELSE IF Validates(f, "protocol-error")
         THEN Raise(ProtocolError(StrMessage(ParseRaw(f, "protocol-error"))))
    ELSE Raise(INVALID_MESSAGE_ERROR)

\* pydantic's ValidationError, which parse_message never lets out
ValidationError == [kind |-> "ValidationError", code |-> 0, reason |-> ""]

\* parse_message without its last `raise INVALID_MESSAGE_ERROR from e`: the
\* ValidationError of the last attempt leaves as it is
parse_message_validation_error(f, message_type) ==
    IF Validates(f, message_type) THEN Ok(ParseRaw(f, message_type))
    ELSE IF Validates(f, "protocol-error")
         THEN Raise(ProtocolError(StrMessage(ParseRaw(f, "protocol-error"))))
    ELSE IF Validates(f, "app-error")
         THEN Raise(AppError(f.code, f.reason))
    ELSE Raise(ValidationError)

\* parse_message that takes a text for the expected variant whenever it holds
\* the variant's keys, whatever type it names
parse_message_any_type(f, message_type) ==
    IF f.json /\ Required(message_type) \subseteq f.has THEN Ok(ParseRaw(f, message_type))
    ELSE IF Validates(f, "protocol-error")
         THEN Raise(ProtocolError(StrMessage(ParseRaw(f, "protocol-error"))))
    ELSE IF Validates(f, "app-error")
         THEN Raise(AppError(f.code, f.reason))
    ELSE Raise(INVALID_MESSAGE_ERROR)

parse_message(f, message_type) ==
    IF Validates(f, message_type) THEN Ok(ParseRaw(f, message_type))
    ELSE IF Validates(f, "protocol-error")
         THEN Raise(ProtocolError(StrMessage(ParseRaw(f, "protocol-error"))))
    ELSE IF Validates(f, "app-error")
         THEN Raise(AppError(f.code, f.reason))
    ELSE Raise(INVALID_MESSAGE_ERROR)

\* parse_stop_message that expects a data frame where the stop is due
parse_stop_message_expects_data(f) == parse_message(f, "data")

parse_stop_message(f) == parse_message(f, "stop")

parse_data_message(f) == parse_message(f, "data")

parse_stream_end_message(f) == parse_message(f, "stream-end")

\* check_chat_id that never raises
check_chat_id_unchecked(m, expected_id) == NoError

check_chat_id(m, expected_id) ==
    IF m.chatId # expected_id THEN CONVERSATION_ERROR ELSE NoError

\* parse, then check the chat id
Checked(r, chat_id) ==
    IF ~r.ok THEN r
    ELSE IF check_chat_id(r.msg, chat_id) # NoError
         THEN Raise(check_chat_id(r.msg, chat_id))
    ELSE r

\* receive_stop_message that lets one more data frame of the chat pass for the stop
receive_stop_message_takes_data(f, chat_id) ==
    IF parse_data_message(f).ok THEN Checked(parse_data_message(f), chat_id)
    ELSE Checked(parse_stop_message(f), chat_id)

receive_stop_message(f, chat_id) == Checked(parse_stop_message(f), chat_id)

\* receive_data_message that verifies the chat id of the frame before parsing it
receive_data_message_verifies_first(f, chat_id) ==
    IF f.json /\ f.chatId # chat_id THEN Raise(CONVERSATION_ERROR)
    ELSE Checked(parse_data_message(f), chat_id)

receive_data_message(f, chat_id) == Checked(parse_data_message(f), chat_id)

\* one turn of the loop of receive_data_message_stream on frame f:
\* yield a data message, return (the stream has ended) or raise
StreamYield(m) == [kind |-> "yield", msg |-> m, err |-> NoError]

StreamReturn == [kind |-> "return", msg |-> ParseRaw(NotJson, ""), err |-> NoError]

StreamRaise(e) == [kind |-> "raise", msg |-> ParseRaw(NotJson, ""), err |-> e]

\* receive_data_message_stream whose inner handler raises the invalid-message
\* error in place of the error of the data parse
receive_data_message_stream_raises_invalid(f, chat_id) ==
    LET d == parse_data_message(f)
        s == parse_stream_end_message(f)
    IN  IF d.ok
        THEN IF check_chat_id(d.msg, chat_id) # NoError
             THEN StreamRaise(check_chat_id(d.msg, chat_id))
             ELSE StreamYield(d.msg)
        ELSE IF d.err.kind # "ProtocolError" THEN StreamRaise(d.err)
        ELSE IF s.ok
             THEN IF check_chat_id(s.msg, chat_id) # NoError
                  THEN StreamRaise(check_chat_id(s.msg, chat_id))
                  ELSE StreamReturn
        ELSE StreamRaise(INVALID_MESSAGE_ERROR)

\* receive_data_message_stream without the `return` after the stream-end: the
\* message parsed as stream-end falls through to the yield
receive_data_message_stream_no_return(f, chat_id) ==
    LET d == parse_data_message(f)
        s == parse_stream_end_message(f)
    IN  IF d.ok
        THEN IF check_chat_id(d.msg, chat_id) # NoError
             THEN StreamRaise(check_chat_id(d.msg, chat_id))
             ELSE StreamYield(d.msg)
        ELSE IF d.err.kind # "ProtocolError" THEN StreamRaise(d.err)
        ELSE IF s.ok
             THEN IF check_chat_id(s.msg, chat_id) # NoError
                  THEN StreamRaise(check_chat_id(s.msg, chat_id))
                  ELSE StreamYield(s.msg)
        ELSE IF s.err.kind = "ProtocolError" THEN StreamRaise(d.err)
        ELSE StreamRaise(s.err)

receive_data_message_stream(f, chat_id) ==
    LET d == parse_data_message(f)
        s == parse_stream_end_message(f)
    IN  IF d.ok
        THEN IF check_chat_id(d.msg, chat_id) # NoError
             THEN StreamRaise(check_chat_id(d.msg, chat_id))
             ELSE StreamYield(d.msg)
        ELSE IF d.err.kind # "ProtocolError" THEN StreamRaise(d.err)
        ELSE IF s.ok
             THEN IF check_chat_id(s.msg, chat_id) # NoError
                  THEN StreamRaise(check_chat_id(s.msg, chat_id))
                  ELSE StreamReturn
        ELSE IF s.err.kind = "ProtocolError" THEN StreamRaise(d.err)
        ELSE StreamRaise(s.err)

\* send_data_message that builds the message without the payload
send_data_message_no_payload(chat_id, payload) == DataMessage(chat_id, None)

\* send_data_message that builds the message without the chat id
send_data_message_no_chat_id(chat_id, payload) == DataMessage(None, payload)

\* the data frame send_data_message writes: create_data_message, then its wire form
send_data_message(chat_id, payload) == DataMessage(chat_id, payload)

(***************************************************************************)
(* client.py: the six operations, each a sender and a receiver             *)
(***************************************************************************)
Ops == {"get", "subscribe", "request", "request_stream_in",
        "request_stream_out", "request_stream_in_out"}

SenderOf(o) ==
    CASE o \in {"get", "subscribe"} -> "NullSender"
      [] o \in {"request", "request_stream_out"} -> "SingleSender"
      [] OTHER -> "StreamSender"

ReceiverOf(o) ==
    CASE o \in {"get", "request", "request_stream_in"} -> "SingleReceiver"
      [] OTHER -> "StreamReceiver"

\* an element of a stream sender's source: a payload, or the source raising there
RaiseItem == "raise"

SeqsUpTo(S, n) == UNION {[1..k -> S] : k \in 0..n}

\* the data argument of an operation, as a sequence: nothing, one payload, a source
Inputs(o) ==
    CASE SenderOf(o) = "NullSender" -> {<<>>}
      [] SenderOf(o) = "SingleSender" -> {<<p>> : p \in Payloads}
      [] OTHER -> SeqsUpTo(Payloads \cup {RaiseItem}, MaxSource)

\* the frames a server may put on the wire: the six variants of the wire schema,
\* each with its type tag and its fields, under any chat id, and a text that is
\* no JSON object
ServerFrames ==
    {DataMessage(c, p) : c \in ChatIds, p \in Payloads}
    \cup {StreamEndMessage(c) : c \in ChatIds}
    \cup {StopMessage(c) : c \in ChatIds}
    \cup {AppErrorMessage(c, k, r) : c \in ChatIds, k \in Codes, r \in Reasons}
    \cup {ProtocolErrorMessage(c, r) : c \in ChatIds \cup {None}, r \in Reasons}
    \cup {NotJson}

(***************************************************************************)
(* The sender task                                                         *)
(***************************************************************************)
NewTask == [state |-> "pending", sent |-> 0, err |-> NoError, failedAt |-> ""]

NoTask == [state |-> "none", sent |-> 0, err |-> NoError, failedAt |-> ""]

\* websocket.send succeeds only on a connection open at both ends
CanWrite == transport = "open" /\ peer = "open"

TaskFails(e) == sender' = [sender EXCEPT !.state = "failed", !.err = e, !.failedAt = pc]

\* sending_task.cancel(): a finished task is left as it is
cancel(s) == IF s.state = "pending" THEN [s EXCEPT !.state = "cancelled"] ELSE s

\* asyncio.CancelledError, raised by awaiting a cancelled task
CancelledError == [kind |-> "CancelledError", code |-> 0, reason |-> ""]

\* `await sending_task` without the `except CancelledError: pass` around it
AwaitSendingNotAbsorbed(s) ==
    IF s.state = "failed" THEN s.err
    ELSE IF s.state = "pending" THEN CancelledError
    ELSE NoError

\* what `await sending_task` raises past `except CancelledError: pass`
AwaitSending(s) == IF s.state = "failed" THEN s.err ELSE NoError

\* chat() with the stop awaited in a `finally`: on every exit of the body
ChatExitFinally(e) == "stop"

\* chat() that never awaits the stop
ChatExitNoStop(e) == "closing"

\* chat(): after the yield, the stop is awaited only when the body did not raise
ChatExit(e) == IF e = NoError THEN "stop" ELSE "closing"

\* a scope exit that leaves the connection as it is
ConnectExitLeaves(t) == t

\* websockets.connect's scope exit closes the connection
ConnectExit(t) == "closed"

(***************************************************************************)
(* The state machine                                                       *)
(***************************************************************************)
Init ==
    /\ op \in Ops
    /\ data \in Inputs(op)
    /\ chatId = None
    /\ pc = "connect"
    /\ transport = "none"
    /\ peer = "open"
    /\ sender = NoTask
    /\ outbound = <<>>
    /\ received = <<>>
    /\ lastReadAt = "none"
    /\ yielded = <<>>
    /\ result = None
    /\ err = NoError
    /\ errPhase = "none"
    /\ connects = 0
    /\ applied = None
    /\ returned = <<>>
    /\ request_message = None

\* an error that is recorded while the operation stays where it was
FailsKeepsReading(e, phase) ==
    /\ err' = e
    /\ errPhase' = phase
    /\ pc' = pc

\* the error e leaves the scope at `phase`; the connection is closed next
Fails(e, phase) ==
    /\ err' = e
    /\ errPhase' = phase
    /\ pc' = IF phase = "stop" THEN "closing" ELSE ChatExit(e)

\* a connect that starts the sending task before the chat is opened
ConnectCreatesTask ==
    /\ pc = "connect"
    /\ transport' = "open"
    /\ connects' = connects + 1
    /\ pc' = "start"
    /\ sender' = NewTask
    /\ UNCHANGED <<other, op, data, chatId, peer, outbound, received,
                   lastReadAt, yielded, result, err, errPhase>>

\* websockets.connect(url) succeeds
Connect ==
    /\ pc = "connect"
    /\ transport' = "open"
    /\ connects' = connects + 1
    /\ pc' = "start"
    /\ UNCHANGED <<other, op, data, chatId, peer, sender, outbound, received,
                   lastReadAt, yielded, result, err, errPhase>>

\* a connect whose failure is turned into the library's own ProtocolError
ConnectFailsTranslated ==
    /\ pc = "connect"
    /\ transport' = "refused"
    /\ connects' = connects + 1
    /\ err' = INVALID_MESSAGE_ERROR
    /\ errPhase' = "connect"
    /\ pc' = "done"
    /\ UNCHANGED <<other, op, data, chatId, peer, sender, outbound, received,
                   lastReadAt, yielded, result>>

\* websockets.connect(url) raises: refused, invalid URI
ConnectFails ==
    /\ pc = "connect"
    /\ transport' = "refused"
    /\ connects' = connects + 1
    /\ err' = TransportError
    /\ errPhase' = "connect"
    /\ pc' = "done"
    /\ UNCHANGED <<other, op, data, chatId, peer, sender, outbound, received,
                   lastReadAt, yielded, result>>

\* a chat that draws one id for the start frame and another for its body
StartWithSecondId ==
    /\ pc = "start"
    /\ \E c \in ChatIds : \E c2 \in ChatIds \ {c} :
         /\ chatId' = c
         /\ outbound' = Append(outbound, StartMessage(c2))
         /\ sender' = NewTask
         /\ pc' = IF ReceiverOf(op) = "SingleReceiver" THEN "recv" ELSE "recvStream"
    /\ UNCHANGED <<other, op, data, transport, peer, received, lastReadAt,
                   yielded, result, err, errPhase, connects>>

\* a chat that enters its body without writing the start frame
StartWithoutStartFrame ==
    /\ pc = "start"
    /\ \E c \in ChatIds :
         /\ chatId' = c
         /\ sender' = NewTask
         /\ pc' = IF ReceiverOf(op) = "SingleReceiver" THEN "recv" ELSE "recvStream"
    /\ UNCHANGED <<other, op, data, transport, peer, outbound, received, lastReadAt,
                   yielded, result, err, errPhase, connects>>

\* a chain that goes to its receive without having started the sending task
StartWithoutTask ==
    /\ pc = "start"
    /\ \E c \in ChatIds :
         /\ chatId' = c
         /\ outbound' = Append(outbound, StartMessage(c))
         /\ pc' = IF ReceiverOf(op) = "SingleReceiver" THEN "recv" ELSE "recvStream"
    /\ UNCHANGED <<other, op, data, transport, peer, sender, received, lastReadAt,
                   yielded, result, err, errPhase, connects>>

\* chat(): uuid4(), send the start frame, yield; call() hands the chain to the
\* operation, which runs it: chain creates the sending task and starts to receive
Start ==
    /\ pc = "start"
    /\ \E c \in ChatIds :
         /\ chatId' = c
         /\ IF CanWrite
            THEN /\ outbound' = Append(outbound, StartMessage(c))
                 /\ sender' = NewTask
                 /\ pc' = IF ReceiverOf(op) = "SingleReceiver" THEN "recv" ELSE "recvStream"
                 /\ UNCHANGED <<err, errPhase>>
            ELSE /\ err' = TransportError
                 /\ errPhase' = "start"
                 /\ pc' = "closing"
                 /\ UNCHANGED <<outbound, sender>>
    /\ UNCHANGED <<other, op, data, transport, peer, received, lastReadAt, yielded,
                   result, connects>>

\* the tail of chain once the receive is over: cancel the sending task, await it
ChainEnds(value) ==
    /\ sender' = cancel(sender)
    /\ IF AwaitSending(sender) = NoError
       THEN /\ result' = value
            /\ pc' = ChatExit(NoError)
            /\ UNCHANGED <<err, errPhase>>
       ELSE /\ Fails(AwaitSending(sender), "body")
            /\ UNCHANGED result

\* SingleReceiver.chain: receive_data_message on the next frame
RecvSingle ==
    /\ pc = "recv"
    /\ peer = "open"
    /\ \E f \in ServerFrames :
         LET r == receive_data_message(f, chatId) IN
         /\ received' = Append(received, f)
         /\ lastReadAt' = "recv"
         /\ IF r.ok
            THEN ChainEnds(r.msg.payload)
            ELSE /\ Fails(r.err, "body")
                 /\ UNCHANGED <<sender, result>>
    /\ UNCHANGED <<other, op, data, chatId, transport, peer, outbound, yielded, connects>>

\* a stream receiver that yields the payload of a data frame before the chat id
\* of the frame is checked
RecvStreamYieldsUnchecked ==
    /\ pc = "recvStream"
    /\ peer = "open"
    /\ \E f \in ServerFrames :
         LET r == receive_data_message_stream(f, chatId) IN
         /\ r.kind = "yield" => Len(yielded) < MaxYield
         /\ received' = Append(received, f)
         /\ lastReadAt' = "recvStream"
         /\ CASE r.kind = "yield" ->
                   /\ yielded' = Append(yielded, r.msg.payload)
                   /\ UNCHANGED <<pc, sender, result, err, errPhase>>
              [] r.kind = "return" ->
                   /\ ChainEnds(None)
                   /\ UNCHANGED yielded
              [] OTHER ->
                   /\ Fails(r.err, "body")
                   /\ yielded' = IF parse_data_message(f).ok
                                 THEN Append(yielded, parse_data_message(f).msg.payload)
                                 ELSE yielded
                   /\ UNCHANGED <<sender, result>>
    /\ UNCHANGED <<other, op, data, chatId, transport, peer, outbound, connects>>

\* StreamReceiver.chain: one turn of the loop of receive_data_message_stream
RecvStream ==
    /\ pc = "recvStream"
    /\ peer = "open"
    /\ \E f \in ServerFrames :
         LET r == receive_data_message_stream(f, chatId) IN
         /\ r.kind = "yield" => Len(yielded) < MaxYield
         /\ received' = Append(received, f)
         /\ lastReadAt' = "recvStream"
         /\ CASE r.kind = "yield" ->
                   /\ yielded' = Append(yielded, r.msg.payload)
                   /\ UNCHANGED <<pc, sender, result, err, errPhase>>
              [] r.kind = "return" ->
                   /\ ChainEnds(None)
                   /\ UNCHANGED yielded
              [] OTHER ->
                   /\ Fails(r.err, "body")
                   /\ UNCHANGED <<sender, result, yielded>>
    /\ UNCHANGED <<other, op, data, chatId, transport, peer, outbound, connects>>

\* the consumer breaks out of the iteration after a payload: the operation's
\* generator is closed, GeneratorExit leaves the scopes from the yield
Abandon ==
    /\ pc = "recvStream"
    /\ Len(yielded) > 0
    /\ Fails(GeneratorExit, "body")
    /\ UNCHANGED <<other, op, data, chatId, transport, peer, sender, outbound, received,
                   lastReadAt, yielded, result, connects>>

\* a chat that reads the frame after its body without looking at it
RecvStopUnverified ==
    /\ pc = "stop"
    /\ peer = "open"
    /\ \E f \in ServerFrames :
         /\ received' = Append(received, f)
         /\ lastReadAt' = "stop"
         /\ pc' = "closing"
    /\ UNCHANGED <<other, op, data, chatId, transport, peer, sender, outbound, yielded,
                   result, err, errPhase, connects>>

\* chat(): receive_stop_message after the body
RecvStop ==
    /\ pc = "stop"
    /\ peer = "open"
    /\ \E f \in ServerFrames :
         LET r == receive_stop_message(f, chatId) IN
         /\ received' = Append(received, f)
         /\ lastReadAt' = "stop"
         /\ IF r.ok
            THEN /\ pc' = "closing"
                 /\ UNCHANGED <<err, errPhase>>
            ELSE Fails(r.err, "stop")
    /\ UNCHANGED <<other, op, data, chatId, transport, peer, sender, outbound, yielded,
                   result, connects>>

\* a read on a connection the peer has closed: recv() raises; the iteration of
\* the websocket ends silently after a clean close and raises after another
RecvClosed ==
    /\ pc \in {"recv", "recvStream", "stop"}
    /\ peer # "open"
    /\ IF pc = "recvStream" /\ peer = "closedOK"
       THEN ChainEnds(None)
       ELSE /\ Fails(TransportError, IF pc = "stop" THEN "stop" ELSE "body")
            /\ UNCHANGED <<sender, result>>
    /\ UNCHANGED <<other, op, data, chatId, transport, peer, outbound, received,
                   lastReadAt, yielded, connects>>

\* the exit of `async with websockets.connect(...)`: the result or the error
\* reaches the caller after the connection is closed
Close ==
    /\ pc = "closing"
    /\ transport' = ConnectExit(transport)
    /\ pc' = "done"
    /\ UNCHANGED <<other, op, data, chatId, peer, sender, outbound, received,
                   lastReadAt, yielded, result, err, errPhase, connects>>

\* a NullSender that writes an empty data frame
SendNullWrites ==
    /\ sender.state = "pending"
    /\ SenderOf(op) = "NullSender"
    /\ sender' = [sender EXCEPT !.state = "done"]
    /\ outbound' = Append(outbound, send_data_message(chatId, None))
    /\ UNCHANGED <<other, op, data, chatId, pc, transport, peer, received,
                   lastReadAt, yielded, result, err, errPhase, connects>>

\* NullSender.send
SendNull ==
    /\ sender.state = "pending"
    /\ SenderOf(op) = "NullSender"
    /\ sender' = [sender EXCEPT !.state = "done"]
    /\ UNCHANGED <<other, op, data, chatId, pc, transport, peer, outbound, received,
                   lastReadAt, yielded, result, err, errPhase, connects>>

\* SingleSender.send: send_data_message
SendSingle ==
    /\ sender.state = "pending"
    /\ SenderOf(op) = "SingleSender"
    /\ IF CanWrite
       THEN /\ outbound' = Append(outbound, send_data_message(chatId, data[1]))
            /\ sender' = [sender EXCEPT !.state = "done", !.sent = 1]
       ELSE /\ TaskFails(TransportError)
            /\ UNCHANGED outbound
    /\ UNCHANGED <<other, op, data, chatId, pc, transport, peer, received,
                   lastReadAt, yielded, result, err, errPhase, connects>>

\* send_data_message_stream that closes the stream when its source raises
SendStreamItemEndsOnRaise ==
    /\ sender.state = "pending"
    /\ SenderOf(op) = "StreamSender"
    /\ sender.sent < Len(data)
    /\ LET item == data[sender.sent + 1] IN
       IF item = RaiseItem
       THEN /\ TaskFails(SourceError)
            /\ outbound' = IF CanWrite THEN Append(outbound, StreamEndMessage(chatId))
                           ELSE outbound
       ELSE IF CanWrite
       THEN /\ outbound' = Append(outbound, send_data_message(chatId, item))
            /\ sender' = [sender EXCEPT !.sent = @ + 1]
       ELSE /\ TaskFails(TransportError)
            /\ UNCHANGED outbound
    /\ UNCHANGED <<other, op, data, chatId, pc, transport, peer, received,
                   lastReadAt, yielded, result, err, errPhase, connects>>

\* StreamSender.send: one turn of the loop of send_data_message_stream
SendStreamItem ==
    /\ sender.state = "pending"
    /\ SenderOf(op) = "StreamSender"
    /\ sender.sent < Len(data)
    /\ LET item == data[sender.sent + 1] IN
       IF item = RaiseItem
       THEN /\ TaskFails(SourceError)
            /\ UNCHANGED outbound
       ELSE IF CanWrite
       THEN /\ outbound' = Append(outbound, send_data_message(chatId, item))
            /\ sender' = [sender EXCEPT !.sent = @ + 1]
       ELSE /\ TaskFails(TransportError)
            /\ UNCHANGED outbound
    /\ UNCHANGED <<other, op, data, chatId, pc, transport, peer, received,
                   lastReadAt, yielded, result, err, errPhase, connects>>

\* send_data_message_stream that returns past its loop without the stream-end
SendStreamEndSkipped ==
    /\ sender.state = "pending"
    /\ SenderOf(op) = "StreamSender"
    /\ sender.sent = Len(data)
    /\ sender' = [sender EXCEPT !.state = "done"]
    /\ UNCHANGED <<other, op, data, chatId, pc, transport, peer, outbound, received,
                   lastReadAt, yielded, result, err, errPhase, connects>>

\* send_data_message_stream past the loop: the stream-end frame
SendStreamEnd ==
    /\ sender.state = "pending"
    /\ SenderOf(op) = "StreamSender"
    /\ sender.sent = Len(data)
    /\ IF CanWrite
       THEN /\ outbound' = Append(outbound, StreamEndMessage(chatId))
            /\ sender' = [sender EXCEPT !.state = "done"]
       ELSE /\ TaskFails(TransportError)
            /\ UNCHANGED outbound
    /\ UNCHANGED <<other, op, data, chatId, pc, transport, peer, received,
                   lastReadAt, yielded, result, err, errPhase, connects>>

\* the server closes the connection, cleanly or not
PeerCloses ==
    /\ transport = "open"
    /\ peer = "open"
    /\ peer' \in {"closedOK", "closedError"}
    /\ UNCHANGED <<other, op, data, chatId, pc, transport, sender, outbound, received,
                   lastReadAt, yielded, result, err, errPhase, connects>>

Next ==
    \/ Connect
    \/ ConnectFails
    \/ Start
    \/ RecvSingle
    \/ RecvStream
    \/ Abandon
    \/ RecvStop
    \/ RecvClosed
    \/ Close
    \/ SendNull
    \/ SendSingle
    \/ SendStreamItem
    \/ SendStreamEnd
    \/ PeerCloses

Spec == Init /\ [][Next]_vars

(***************************************************************************)
(* Properties                                                              *)
(***************************************************************************)
Last(s) == s[Len(s)]

IsPrefix(a, b) == Len(a) <= Len(b) /\ SubSeq(b, 1, Len(a)) = a

\* f is a frame of the wire schema's variant `type`
IsA(f, type) == f.json /\ "type" \in f.has /\ f.type = type

\* the place of the first stream-end frame of s, Len(s) + 1 when it holds none
FirstStreamEnd(s) ==
    IF \E i \in 1..Len(s) : IsA(s[i], "stream-end")
    THEN CHOOSE i \in 1..Len(s) :
           /\ IsA(s[i], "stream-end")
           /\ \A j \in 1..(i - 1) : ~IsA(s[j], "stream-end")
    ELSE Len(s) + 1

\* the payloads of the data frames of s, in order
DataPayloads(s) ==
    LET d == SelectSeq(s, LAMBDA f : IsA(f, "data"))
    IN  [i \in 1..Len(d) |-> d[i].payload]

\* the payloads of the data frames the server emitted before its first stream-end
EmittedBeforeStreamEnd ==
    DataPayloads(SubSeq(received, 1, FirstStreamEnd(received) - 1))

\* C1: in a stream operation the payloads yielded to the caller are, in order,
\* those of the data frames the server emitted before its first stream-end:
\* always a prefix of them, all of them once the stream-end has been read, and
\* nothing more after it.
C1_StreamYieldsInOrder ==
    ReceiverOf(op) = "StreamReceiver" =>
        /\ IsPrefix(yielded, EmittedBeforeStreamEnd)
        /\ FirstStreamEnd(received) <= Len(received) =>
               yielded = EmittedBeforeStreamEnd

C1_Witness ==
    /\ op = "subscribe"
    /\ pc = "done"
    /\ err = NoError
    /\ yielded = <<"p", "q">>
    /\ received = <<DataMessage(chatId, "p"), DataMessage(chatId, "q"),
                    StreamEndMessage(chatId), StopMessage(chatId)>>

\* the chain of the operation has been left, by whatever path
ChainLeft == sender.state # "none" /\ pc \in {"stop", "closing", "done"}

\* the sender task has begun to write: when it is still pending, it has at
\* least one more frame to write
SenderWriting == sender.sent >= 1

\* C2: once a stream receiver's chain has terminated (stream-end, an error of
\* the receive loop, the consumer abandoning the iteration) the sender task is
\* not left running.  Stated for a sender task that has begun to write.
C2_SenderNotLeftRunning ==
    (ReceiverOf(op) = "StreamReceiver" /\ ChainLeft /\ SenderWriting)
    => sender.state # "pending"

\* the receive side is done: the reply or the end of the stream was obtained,
\* or the receive raised ProtocolError or AppError
ReceiveDone ==
    /\ ChainLeft
    /\ \/ errPhase \in {"none", "stop"}
       \/ errPhase = "body" /\ err.kind \in {"ProtocolError", "AppError"}

\* C3: once the receive side is done the sender task writes nothing more on
\* the transport, and it is no longer running when the transport is closed.
\* Stated for a sender task that has begun to write.
C3_NoWriteOnceReceiveDone ==
    [][(ReceiveDone /\ SenderWriting) =>
         /\ outbound' = outbound
         /\ transport' = "closed" => sender'.state # "pending"]_vars

\* C4: an error the sender task raised while the receiver was running is the
\* error the caller gets.
C4_SenderErrorSurfaces ==
    (pc = "done" /\ sender.state = "failed"
       /\ sender.failedAt \in {"recv", "recvStream"}) => err = sender.err

\* C5: under a single receiver, when the reply arrives while the sender task
\* is still running, the task is cancelled, the cancellation is absorbed and
\* the chain returns the reply's payload without an error.
C5_SlowSenderCancelled ==
    [][(/\ ReceiverOf(op) = "SingleReceiver"
        /\ pc = "recv"
        /\ sender.state = "pending"
        /\ Len(received') = Len(received) + 1
        /\ IsA(Last(received'), "data")
        /\ Last(received').chatId = chatId)
       => /\ sender'.state = "cancelled"
          /\ err' = NoError
          /\ result' = Last(received').payload
          /\ pc' = "stop"]_vars

C5_Witness ==
    /\ op = "request_stream_in"
    /\ data = <<"p", "q">>
    /\ sender.state = "cancelled"
    /\ sender.sent = 1
    /\ pc = "done"
    /\ err = NoError
    /\ result = "q"

\* C6: once the body of the chat has raised, the client reads nothing more (it
\* does not await the stop): it is on its way out, and the error it leaves with
\* is the body's.
C6_NoStopAfterBodyError ==
    [][errPhase = "body" =>
         /\ pc \in {"closing", "done"}
         /\ received' = received
         /\ lastReadAt' = lastReadAt
         /\ err' = err
         /\ errPhase' = errPhase]_vars

C6_Witness ==
    /\ errPhase = "body"
    /\ err.kind = "AppError"
    /\ pc = "done"
    /\ lastReadAt = "recvStream"
    /\ Len(yielded) = 1

\* C7: on the success path the transport is closed only after a stop frame
\* carrying the chat's id has been read, as the last frame read.
C7_StopBeforeClose ==
    (transport = "closed" /\ err = NoError) =>
        /\ received # <<>>
        /\ lastReadAt = "stop"
        /\ Last(received) = StopMessage(chatId)

C7_Witness ==
    /\ transport = "closed"
    /\ err = NoError
    /\ op = "request"
    /\ result = "p"
    /\ Len(received) = 2

\* C8: an invocation connects once, and on every path on which it ends the
\* connection it opened is closed: nothing stands between a scope that is
\* being left and the close.
C8_OneConnectionClosed ==
    /\ connects <= 1
    /\ pc # "connect" => connects = 1
    /\ pc = "done" => transport \in {"closed", "refused"}
    /\ pc = "closing" => ENABLED Close

C8_Witness ==
    /\ pc = "done"
    /\ transport = "closed"
    /\ err = GeneratorExit
    /\ sender.state = "pending"

\* the variant the client awaits at the place `at` includes that of frame f
Awaited(at, f) ==
    \/ at = "recv" /\ IsA(f, "data")
    \/ at = "recvStream" /\ (IsA(f, "data") \/ IsA(f, "stream-end"))
    \/ at = "stop" /\ IsA(f, "stop")

\* C9: a data, stream-end or stop frame read where the client awaits it, with a
\* chat id other than the chat's, ends the operation with ProtocolError
\* "Received incompatible conversation id.".
C9_ChatIdVerified ==
    (/\ received # <<>>
     /\ Awaited(lastReadAt, Last(received))
     /\ Last(received).chatId # chatId)
    => /\ err = CONVERSATION_ERROR
       /\ pc \in {"closing", "done"}

C9_Witness ==
    /\ pc = "done"
    /\ err = CONVERSATION_ERROR
    /\ lastReadAt = "recvStream"
    /\ Len(yielded) = 1
    /\ IsA(Last(received), "stream-end")

\* C10: an app-error frame read at any place (for the reply, in the stream,
\* for the stop) ends the operation with AppError carrying the frame's code
\* and reason.
C10_AppErrorSurfaces ==
    (received # <<>> /\ IsA(Last(received), "app-error"))
    => /\ err = AppError(Last(received).code, Last(received).reason)
       /\ pc \in {"closing", "done"}

C10_Witness ==
    /\ pc = "done"
    /\ op = "request_stream_in_out"
    /\ lastReadAt = "stop"
    /\ err = AppError(7, "foo")
    /\ Len(yielded) = 1

\* the variants the client tries for a frame read at the place `at`
Tried(at) ==
    CASE at = "recv" -> {"data"}
      [] at = "recvStream" -> {"data", "stream-end"}
      [] at = "stop" -> {"stop"}
      [] OTHER -> {}

\* frame f, read at `at`, is none of the variants tried there and no error frame
Unparseable(at, f) ==
    /\ \A v \in Tried(at) \cup {"protocol-error", "app-error"} :
         ~(f.json /\ Required(v) \subseteq f.has /\ ("type" \in f.has => f.type = v))

\* C11: a frame that parses neither as the variant awaited, nor as a
\* protocol-error, nor as an app-error (the literal text foo, a frame of
\* another variant) ends the operation, whichever it is, with
\* ProtocolError "Invalid message received.".
C11_InvalidMessage ==
    (received # <<>> /\ Unparseable(lastReadAt, Last(received)))
    => /\ err = ProtocolError("Invalid message received.")
       /\ pc \in {"closing", "done"}

C11_Witness ==
    /\ pc = "done"
    /\ op = "subscribe"
    /\ Len(yielded) = 1
    /\ Last(received) = NotJson
    /\ err = ProtocolError("Invalid message received.")

\* the source holds payloads only: iterating it never raises
FiniteSource == \A i \in 1..Len(data) : data[i] \in Payloads

\* the frames a stream sender writes for the first n elements of its source
DataFrames(n) == [i \in 1..n |-> DataMessage(chatId, data[i])]

\* all the frames of a stream sender: one data frame per element, the stream-end
StreamFrames == Append(DataFrames(Len(data)), StreamEndMessage(chatId))

\* the operation has ended and given its caller a result, not an error
Succeeded == pc = "done" /\ err = NoError

\* C12 as stated: a successful request_stream_in over N payloads has written N
\* data frames and one stream-end, and has read one data frame and then the stop.
\* Stated for a sender task that has begun to write.
C12_AllFramesWritten ==
    (op = "request_stream_in" /\ FiniteSource /\ Succeeded /\ SenderWriting)
    => /\ outbound = <<StartMessage(chatId)>> \o StreamFrames
       /\ received = <<DataMessage(chatId, result), StopMessage(chatId)>>

\* C12, amended: a successful request_stream_in over N payloads has written,
\* after the start, the N data frames in source order and one stream-end when
\* the sender task completed before the reply was read, and only the frames
\* written so far (a prefix of the data frames, no stream-end) when the reply
\* came first and the task was cancelled; it has read one data frame and then
\* the stop.
C12_FramesWrittenUnlessCancelled ==
    (op = "request_stream_in" /\ FiniteSource /\ Succeeded)
    => /\ sender.state \in {"done", "cancelled"}
       /\ sender.state = "done" =>
              outbound = <<StartMessage(chatId)>> \o StreamFrames
       /\ sender.state = "cancelled" =>
              /\ sender.sent <= Len(data)
              /\ outbound = <<StartMessage(chatId)>> \o DataFrames(sender.sent)
       /\ received = <<DataMessage(chatId, result), StopMessage(chatId)>>

C12_Witness ==
    /\ op = "request_stream_in"
    /\ data = <<"q", "p">>
    /\ Succeeded
    /\ sender.state = "done"
    /\ Len(outbound) = 4
    /\ Len(received) = 2

\* C13 as stated: a successful request has written exactly one data frame, with
\* the caller's payload and the chat id, and has read one data frame and then
\* the stop, whatever the interleaving of the sender task and the receive.
C13_ExactlyOneDataSent ==
    (op = "request" /\ Succeeded)
    => /\ outbound = <<StartMessage(chatId), DataMessage(chatId, data[1])>>
       /\ received = <<DataMessage(chatId, result), StopMessage(chatId)>>

\* C13, amended: a successful request has written at most one data frame, the
\* one with the caller's payload and the chat id; it has written none exactly
\* when the reply was read before the sender task ran and the task was
\* cancelled.  It has read one data frame and then the stop.
C13_OneDataUnlessCancelled ==
    (op = "request" /\ Succeeded)
    => /\ sender.state \in {"done", "cancelled"}
       /\ sender.state = "done"
            => outbound = <<StartMessage(chatId), DataMessage(chatId, data[1])>>
       /\ sender.state = "cancelled" => outbound = <<StartMessage(chatId)>>
       /\ received = <<DataMessage(chatId, result), StopMessage(chatId)>>

C13_Witness ==
    /\ op = "request"
    /\ Succeeded
    /\ sender.state = "done"
    /\ outbound = <<StartMessage(chatId), DataMessage(chatId, "q")>>
    /\ result = "p"

\* C14: a get that succeeded has read exactly two frames, the data frame of the
\* chat and then the stop frame of the chat, and the stop was its last read.
C14_GetReadsDataThenStop ==
    (op = "get" /\ Succeeded)
    => /\ Len(received) = 2
       /\ IsA(received[1], "data") /\ received[1].chatId = chatId
       /\ IsA(received[2], "stop") /\ received[2].chatId = chatId
       /\ lastReadAt = "stop"

C14_Witness ==
    /\ op = "get"
    /\ Succeeded
    /\ received = <<DataMessage(chatId, "q"), StopMessage(chatId)>>
    /\ sender.state = "done"

SingleResultOps == {o \in Ops : ReceiverOf(o) = "SingleReceiver"}

\* C15: in get, request and request_stream_in, once the data frame of the chat
\* with payload p and then the stop frame of the chat have been read, the
\* operation has no error and the value it returns is p, for every payload p.
C15_ReturnsReplyPayload ==
    \A p \in Payloads :
        (/\ op \in SingleResultOps
         /\ received = <<DataMessage(chatId, p), StopMessage(chatId)>>)
        => /\ err = NoError
           /\ result = p
           /\ pc \in {"closing", "done"}

C15_Witness ==
    /\ op = "request_stream_in"
    /\ pc = "done"
    /\ received = <<DataMessage(chatId, "p"), StopMessage(chatId)>>
    /\ result = "p"
    /\ err = NoError

\* C16: the first frame on the transport is the start frame of the chat and no
\* later frame is a start frame; the sender task exists, and so writes, only
\* once the start frame is written, and the body is entered only after it.
C16_StartFirstAndOnce ==
    /\ outbound # <<>>
         => /\ outbound[1] = StartMessage(chatId)
            /\ \A i \in 2..Len(outbound) : ~IsA(outbound[i], "start")
    /\ (sender.state # "none" \/ pc \in {"recv", "recvStream", "stop"})
         => outbound # <<>>
    /\ sender.state # "none" => Len(outbound) >= 1 + sender.sent

C16_Witness ==
    /\ op = "request_stream_in_out"
    /\ Len(outbound) = 3
    /\ outbound[1] = StartMessage(chatId)
    /\ IsA(outbound[2], "data")
    /\ IsA(outbound[3], "data")
    /\ sender.state = "pending"

\* C17: a stream sender that has run to completion has written, after the start
\* frame, one data frame per element of its source in the source's order and
\* then one stream-end frame; in every state a stream-end frame the client has
\* written is the last frame it has written.
C17_StreamSenderCompletes ==
    /\ (SenderOf(op) = "StreamSender" /\ sender.state = "done")
         => /\ FiniteSource
            /\ outbound = <<StartMessage(chatId)>> \o StreamFrames
    /\ \A i \in 1..Len(outbound) : IsA(outbound[i], "stream-end") => i = Len(outbound)

C17_Witness ==
    /\ op = "request_stream_in_out"
    /\ sender.state = "done"
    /\ data = <<"p", "q">>
    /\ outbound = <<StartMessage(chatId), DataMessage(chatId, "p"),
                    DataMessage(chatId, "q"), StreamEndMessage(chatId)>>
    /\ pc = "recvStream"

\* C18: a stream sender whose source raised has stopped with the source's error
\* at the element that raised; the frames it wrote are the start frame and the
\* data frames of the elements before that one, and no stream-end frame.
C18_SourceErrorNoStreamEnd ==
    (sender.state = "failed" /\ sender.err = SourceError)
    => /\ SenderOf(op) = "StreamSender"
       /\ sender.sent < Len(data)
       /\ data[sender.sent + 1] = RaiseItem
       /\ outbound = <<StartMessage(chatId)>> \o DataFrames(sender.sent)
       /\ \A i \in 1..Len(outbound) : ~IsA(outbound[i], "stream-end")

C18_Witness ==
    /\ op = "request_stream_in"
    /\ data = <<"p", RaiseItem>>
    /\ sender.state = "failed"
    /\ sender.err = SourceError
    /\ outbound = <<StartMessage(chatId), DataMessage(chatId, "p")>>

\* the tasks that may write next: chat() about to send the start frame, and the
\* sending task while it runs
Writers ==
    (IF pc = "start" THEN {"chat"} ELSE {})
    \cup (IF sender.state = "pending" THEN {"sending_task"} ELSE {})

\* the tasks that may read next: the receiver inside chain, and chat() about to
\* read the stop frame; the sending task never reads
Readers ==
    (IF pc \in {"recv", "recvStream"} THEN {"receiver"} ELSE {})
    \cup (IF pc = "stop" THEN {"chat"} ELSE {})

\* C19: in every state at most one task may write to the transport and at most
\* one may read from it: the start write of chat() is over before the sending
\* task exists, and the reads of the receiver and the stop read of chat() follow
\* one another.
C19_OneWriterOneReader ==
    /\ Cardinality(Writers) <= 1
    /\ Cardinality(Readers) <= 1

C19_Witness ==
    /\ Writers = {"sending_task"}
    /\ Readers = {"receiver"}
    /\ sender.sent = 1
    /\ Len(received) = 1

\* the receive side has raised: a ProtocolError or an AppError out of a read in
\* the body or out of the stop read
ReceiveRaised ==
    /\ err.kind \in {"ProtocolError", "AppError"}
    /\ errPhase \in {"body", "stop"}

\* C20: once the receive side has raised a ProtocolError or an AppError, the
\* operation is on its way out with that error: no step reads another frame,
\* hands another payload to the caller, sets a result or replaces the error.
C20_ReceiveErrorTerminates ==
    [][ReceiveRaised =>
         /\ pc \in {"closing", "done"}
         /\ received' = received
         /\ yielded' = yielded
         /\ result' = result
         /\ err' = err]_vars

C20_Witness ==
    /\ ReceiveRaised
    /\ op = "subscribe"
    /\ pc = "done"
    /\ err = AppError(123, "foo")
    /\ Len(received) = 3
    /\ Len(yielded) = 2

\* the error frame f carries another chat id than the chat's, or none
ForeignErrorFrame(f) ==
    \/ IsA(f, "protocol-error") /\ f.chatId # chatId
    \/ IsA(f, "app-error") /\ f.chatId # chatId

\* C21: when the frame read last is a protocol-error frame whose chat id is
\* absent or differs from the chat's, or an app-error frame with another chat
\* id, the operation's error is the ProtocolError built from that frame or the
\* AppError with that frame's code and reason, and it is not the
\* incompatible-conversation-id error.
C21_ErrorFramesSkipChatIdCheck ==
    (received # <<>> /\ ForeignErrorFrame(Last(received)))
    => LET f == Last(received) IN
       /\ IsA(f, "protocol-error")
            => err = ProtocolError(StrMessage(ParseRaw(f, "protocol-error")))
       /\ IsA(f, "app-error") => err = AppError(f.code, f.reason)
       /\ err # ProtocolError("Received incompatible conversation id.")

C21_Witness ==
    /\ pc = "done"
    /\ op = "get"
    /\ chatId = "c1"
    /\ received = <<ProtocolErrorMessage("c2", "foo")>>
    /\ err.kind = "ProtocolError"
    /\ err # CONVERSATION_ERROR

\* C22: the chat id is set by the step that writes the start frame and by no
\* other step (the frame is not written when the transport refuses the write);
\* every frame the client has written carries it, nothing is written while
\* there is none, and while the operation has no error every frame it has read
\* carries it.
C22_OneChatId ==
    [][/\ chatId # None => chatId' = chatId
       /\ chatId' # chatId
            => /\ outbound = <<>>
               /\ outbound' \in {<<>>, <<StartMessage(chatId')>>}
       /\ \A i \in 1..Len(outbound') : outbound'[i].chatId = chatId'
       /\ err' = NoError => \A i \in 1..Len(received') : received'[i].chatId = chatId'
      ]_vars

C22_Witness ==
    /\ op = "request_stream_in"
    /\ pc = "done"
    /\ err = NoError
    /\ chatId = "c2"
    /\ Len(outbound) = 4
    /\ Len(received) = 2
    /\ \A i \in 1..4 : outbound[i].chatId = "c2"

\* C23: when the connection could not be opened the operation is over with the
\* transport's error, which is no ProtocolError and no AppError; no frame has
\* been written or read, no chat id drawn and no sender task created.
C23_ConnectFailureSurfaces ==
    transport = "refused"
    => /\ pc = "done"
       /\ err = TransportError
       /\ err.kind \notin {"ProtocolError", "AppError"}
       /\ errPhase = "connect"
       /\ outbound = <<>>
       /\ received = <<>>
       /\ sender = NoTask
       /\ chatId = None

C23_Witness ==
    /\ transport = "refused"
    /\ op = "request_stream_in_out"
    /\ data = <<"p", "q">>
    /\ err = TransportError
    /\ pc = "done"

\* C24: in get and subscribe the frames written are at every moment none or the
\* start frame alone, and once the chat has been opened and the operation is
\* over they are the start frame alone, whether or not the sender task ran.
C24_NullSenderWritesOnlyStart ==
    SenderOf(op) = "NullSender"
    => /\ outbound \in {<<>>, <<StartMessage(chatId)>>}
       /\ (pc = "done" /\ errPhase \notin {"connect", "start"})
            => outbound = <<StartMessage(chatId)>>

C24_Witness ==
    /\ op = "subscribe"
    /\ pc = "done"
    /\ err = NoError
    /\ sender.state = "done"
    /\ Len(yielded) = 2
    /\ outbound = <<StartMessage(chatId)>>

\* the frame read for the stop of a stream operation: the one that follows the
\* stream-end
AfterStreamEnd ==
    /\ ReceiverOf(op) = "StreamReceiver"
    /\ lastReadAt = "stop"
    /\ Len(received) >= 2
    /\ received[Len(received) - 1] = StreamEndMessage(chatId)

\* C32 as stated: in a stream operation, when the frame that follows the
\* stream-end is not a stop, the operation ends with ProtocolError, having
\* yielded the payloads of the stream and not the one of the stray frame.
C32_StrayFrameProtocolError ==
    (AfterStreamEnd /\ ~IsA(Last(received), "stop"))
    => /\ err.kind = "ProtocolError"
       /\ pc \in {"closing", "done"}
       /\ yielded = EmittedBeforeStreamEnd

\* C32, amended: in a stream operation the frame read after the stream-end is
\* the one read for the stop.  When it names a type other than stop and
\* app-error (data, stream-end, protocol-error) or is no JSON, the operation
\* ends with ProtocolError; when it is an app-error frame, with AppError of the
\* frame's code and reason.  In both cases the payloads yielded are those of the
\* data frames before the stream-end, and the payload of the stray frame is not
\* among them.
C32_StrayFrameRaises ==
    /\ (ReceiverOf(op) = "StreamReceiver" /\ lastReadAt = "stop") => AfterStreamEnd
    /\ (AfterStreamEnd /\ ~IsA(Last(received), "stop"))
       => /\ IF IsA(Last(received), "app-error")
             THEN err = AppError(Last(received).code, Last(received).reason)
             ELSE err.kind = "ProtocolError"
          /\ pc \in {"closing", "done"}
          /\ yielded = EmittedBeforeStreamEnd
          /\ Len(yielded) = Len(DataPayloads(received)) - (IF IsA(Last(received), "data") THEN 1 ELSE 0)

C32_Witness ==
    /\ op = "subscribe"
    /\ pc = "done"
    /\ received = <<DataMessage(chatId, "p"), StreamEndMessage(chatId),
                    DataMessage(chatId, "q")>>
    /\ yielded = <<"p">>
    /\ err = INVALID_MESSAGE_ERROR

\* C34: the sequence of a stream receiver completes normally (the chain goes on
\* past its receive loop, and the chat awaits the stop) only once a stream-end
\* frame carrying the chat's id has been read.
C34_EndsOnlyOnStreamEnd ==
    (ReceiverOf(op) = "StreamReceiver" /\ pc = "stop")
    => \E i \in 1..Len(received) : received[i] = StreamEndMessage(chatId)

\* the caller of a single-result operation has been handed a value
HandedValue == op \in SingleResultOps /\ pc = "done" /\ err = NoError

\* C35: a single-result operation hands the reply's payload to the caller only
\* after it has read, right after the reply, a stop frame with the chat's id.
\* Once the reply has been accepted, if the read for the stop fails on a closed
\* connection or gives anything but that stop frame (another frame, an error
\* frame, a stop with another chat id), the operation is left with an error,
\* which is what the caller gets in place of the value.
C35_ValueOnlyAfterStop ==
    /\ HandedValue
         => /\ received = <<DataMessage(chatId, result), StopMessage(chatId)>>
            /\ lastReadAt = "stop"
    /\ (op \in SingleResultOps /\ lastReadAt = "stop")
         => /\ Len(received) = 2
            /\ received[1] = DataMessage(chatId, result)
            /\ received[2] # StopMessage(chatId)
                 => /\ err # NoError
                    /\ errPhase = "stop"
                    /\ pc \in {"closing", "done"}
            /\ (IsA(received[2], "stop") /\ received[2].chatId # chatId)
                 => err = CONVERSATION_ERROR
            /\ IsA(received[2], "app-error")
                 => err = AppError(received[2].code, received[2].reason)
    /\ (op \in SingleResultOps /\ errPhase = "stop" /\ Len(received) = 1)
         => /\ received[1] = DataMessage(chatId, result)
            /\ peer # "open"
            /\ err = TransportError
            /\ pc \in {"closing", "done"}

C35_Witness ==
    /\ op = "request_stream_in"
    /\ pc = "done"
    /\ result = "p"
    /\ received = <<DataMessage(chatId, "p"), AppErrorMessage(chatId, 7, "foo")>>
    /\ err = AppError(7, "foo")
    /\ errPhase = "stop"

\* C36: every payload delivered to the caller, yielded by a stream operation or
\* returned by a single-result operation, is the payload of a data frame read
\* with the chat id drawn for the invocation; the payload of a data frame with
\* another chat id is not delivered: the frame ends the body with the
\* conversation error.
C36_DeliveredFromOwnChat ==
    /\ ReceiverOf(op) = "StreamReceiver"
         => /\ Len(yielded) <= Len(received)
            /\ \A i \in 1..Len(yielded) : received[i] = DataMessage(chatId, yielded[i])
    /\ ReceiverOf(op) = "SingleReceiver"
         => /\ yielded = <<>>
            /\ result # None => received[1] = DataMessage(chatId, result)
            /\ Succeeded => result # None
    /\ \A i \in 1..Len(received) :
         (IsA(received[i], "data") /\ received[i].chatId # chatId)
         => /\ i > Len(yielded)
            /\ ~Succeeded
            /\ (lastReadAt # "stop" /\ i = Len(received))
                 => /\ err = CONVERSATION_ERROR
                    /\ result = None

C36_Witness ==
    /\ op = "request_stream_out"
    /\ pc = "done"
    /\ Len(received) = 2
    /\ received[1] = DataMessage(chatId, "q")
    /\ IsA(received[2], "data")
    /\ received[2].chatId # chatId
    /\ received[2].payload = "p"
    /\ yielded = <<"q">>
    /\ err = CONVERSATION_ERROR

\* C30: when the frame read last in the stream receive loop is neither a data
\* frame nor a stream-end frame, the operation's error is the one the parse as
\* data raises for it: the ProtocolError made of a protocol-error frame, the
\* AppError of an app-error frame, and "Invalid message received." for any
\* other frame.
C30_StreamRaisesDataParseError ==
    (/\ lastReadAt = "recvStream"
     /\ ~IsA(Last(received), "data")
     /\ ~IsA(Last(received), "stream-end"))
    => LET f == Last(received) IN
       /\ err = IF IsA(f, "protocol-error")
                THEN ProtocolError(StrMessage(ParseRaw(f, "protocol-error")))
                ELSE IF IsA(f, "app-error") THEN AppError(f.code, f.reason)
                ELSE ProtocolError("Invalid message received.")
       /\ errPhase = "body"
       /\ pc \in {"closing", "done"}

C30_Witness ==
    /\ op = "request_stream_out"
    /\ pc = "done"
    /\ lastReadAt = "recvStream"
    /\ Len(yielded) = 1
    /\ Last(received) = ProtocolErrorMessage(chatId, "foo")
    /\ err = ProtocolError(StrMessage(ParseRaw(Last(received), "protocol-error")))

(***************************************************************************)
(* An invocation against a server that follows the protocol, over a        *)
(* transport that delivers every frame, with the tasks scheduled fairly    *)
(***************************************************************************)
\* the server has read what the operation sends: the start frame, then the
\* client's data frame, or its data frames up to the stream-end
ServerHasRead ==
    CASE SenderOf(op) = "NullSender" -> Len(outbound) >= 1
      [] SenderOf(op) = "SingleSender" -> Len(outbound) >= 2
      [] OTHER -> outbound # <<>> /\ IsA(Last(outbound), "stream-end")

\* what such a server sends next in the chat: its data frame, or its data
\* frames and then the stream-end, or an app-error frame in their place
ServerSends(f) ==
    \/ f \in {DataMessage(chatId, p) : p \in Payloads}
    \/ f \in {AppErrorMessage(chatId, k, r) : k \in Codes, r \in Reasons}
    \/ pc = "recvStream" /\ f = StreamEndMessage(chatId)

InitServed == Init /\ FiniteSource

ServedRecvSingle == ServerHasRead /\ RecvSingle /\ ServerSends(Last(received'))

ServedRecvStream == ServerHasRead /\ RecvStream /\ ServerSends(Last(received'))

\* the server leaves its chat: it sends the stop
ServedRecvStop == RecvStop /\ Last(received') = StopMessage(chatId)

NextServed ==
    \/ Connect
    \/ ConnectFails
    \/ Start
    \/ ServedRecvSingle
    \/ ServedRecvStream
    \/ Abandon
    \/ ServedRecvStop
    \/ Close
    \/ SendNull
    \/ SendSingle
    \/ SendStreamItem
    \/ SendStreamEnd

\* the event loop runs every task that can run, and the server answers
Fairness ==
    /\ WF_vars(Connect \/ ConnectFails)
    /\ WF_vars(Start)
    /\ WF_vars(ServedRecvSingle)
    /\ WF_vars(ServedRecvStream)
    /\ WF_vars(ServedRecvStop)
    /\ WF_vars(Close)
    /\ WF_vars(SendNull \/ SendSingle \/ SendStreamItem \/ SendStreamEnd)

SpecServed == InitServed /\ [][NextServed]_vars /\ Fairness

\* C37: against a server that follows the protocol, over a transport that
\* delivers every frame and under fair scheduling of the sender task and the
\* receiver, every operation with a finite input eventually terminates: it
\* returns or raises, with its connection closed (or never opened).
C37_Terminates == <>(pc = "done" /\ transport \in {"closed", "refused"})

C37_Witness ==
    /\ op = "request_stream_in_out"
    /\ data = <<"p", "q">>
    /\ pc = "done"
    /\ err = NoError
    /\ sender.state = "done"
    /\ outbound = <<StartMessage(chatId), DataMessage(chatId, "p"),
                    DataMessage(chatId, "q"), StreamEndMessage(chatId)>>
    /\ received = <<DataMessage(chatId, "q"), StreamEndMessage(chatId),
                    StopMessage(chatId)>>
    /\ yielded = <<"q">>

(***************************************************************************)
(* Functions applied on their own: the URL and the options of the connect  *)
(* call, and the wire form of the messages                                 *)
(***************************************************************************)
\* the state of an invocation, for the steps that leave all of it alone
invocation == <<op, data, chatId, pc, transport, peer, sender, outbound,
                received, lastReadAt, yielded, result, err, errPhase, connects>>

\* no invocation of the client is under way
NoInvocation ==
    /\ op = None
    /\ data = <<>>
    /\ chatId = None
    /\ pc = "none"
    /\ transport = "none"
    /\ peer = "open"
    /\ sender = NoTask
    /\ outbound = <<>>
    /\ received = <<>>
    /\ lastReadAt = "none"
    /\ yielded = <<>>
    /\ result = None
    /\ err = NoError
    /\ errPhase = "none"
    /\ connects = 0

\* longest base URL and longest path
MaxLen == 2

\* a string is a sequence of characters; "a" stands for every character but "/"
Chars == {"/", "a"}

Strings == SeqsUpTo(Chars, MaxLen)

\* str.endswith and str.startswith for a one-character argument
endswith(s, c) == Len(s) > 0 /\ s[Len(s)] = c

startswith(s, c) == Len(s) > 0 /\ s[1] = c

\* untrail that returns the URL as it is
untrail_keeps(url) == url

untrail(url) == IF ~endswith(url, "/") THEN url ELSE SubSeq(url, 1, Len(url) - 1)

lead(path) == IF startswith(path, "/") THEN path ELSE <<"/">> \o path

\* keyword options: each key holds a value, or None when it is not given
Keys == {"k1", "k2"}

Vals == {"v1", "v2"}

Kwargs == [Keys -> Vals \cup {None}]

NoKwargs == [k \in Keys |-> None]

\* Python's TypeError for a call that does not fit the signature
TypeError == [kind |-> "TypeError", code |-> 0, reason |-> ""]

\* Client(url, **ctor): __init__ takes the URL and nothing else
ClientInit(url, ctor) ==
    IF ctor # NoKwargs THEN [err |-> TypeError, url |-> <<>>]
    ELSE [err |-> NoError, url |-> untrail(url)]

\* call() that connects without the options it was given
ConnectArgsDropKwargs(client, path, kwargs) ==
    [err |-> NoError, url |-> client.url \o lead(path), kwargs |-> NoKwargs]

\* the arguments call() hands to websockets.connect
ConnectArgs(client, path, kwargs) ==
    [err |-> NoError, url |-> client.url \o lead(path), kwargs |-> kwargs]

ClientInputs ==
    [fn : {"Client.call"}, url : Strings, path : Strings,
     ctor : Kwargs, kwargs : Kwargs]

Ids == {"i1", "i2"}

\* the id uuid4() gives a message whose wire form holds none
FreshId == "fresh"

Variants == {"start", "stop", "data", "stream-end", "app-error", "protocol-error"}

\* the fields a variant's class adds to id, chat_id and type
OwnFields(v) ==
    CASE v = "data" -> {"payload"}
      [] v = "app-error" -> {"code", "reason"}
      [] v = "protocol-error" -> {"reason"}
      [] OTHER -> {}

\* an instance of the class of variant v
NewMessage(v, id, chat, payload, code, reason) ==
    [type |-> v, id |-> id, chatId |-> chat,
     payload |-> IF "payload" \in OwnFields(v) THEN payload ELSE None,
     code |-> IF "code" \in OwnFields(v) THEN code ELSE 0,
     reason |-> IF "reason" \in OwnFields(v) THEN reason ELSE ""]

\* json() that leaves the id out
message_json_without_id(m) ==
    [json |-> TRUE, has |-> {"chatId", "type"} \cup OwnFields(m.type),
     type |-> m.type, id |-> m.id, chatId |-> m.chatId,
     payload |-> m.payload, code |-> m.code, reason |-> m.reason]

\* BaseMessage.json: every field of the class under its camelCase alias
message_json(m) ==
    [json |-> TRUE, has |-> {"id", "chatId", "type"} \cup OwnFields(m.type),
     type |-> m.type, id |-> m.id, chatId |-> m.chatId,
     payload |-> m.payload, code |-> m.code, reason |-> m.reason]

\* the id parse_raw gives the message: the one of the wire form, or a fresh one
ParseRawId(w) == IF "id" \in w.has THEN w.id ELSE FreshId

\* the messages that can be built: only a protocol-error goes without chat id
Messages ==
    {NewMessage(v, i, c, p, k, r) :
        v \in Variants, i \in Ids, c \in ChatIds, p \in Payloads \cup {None},
        k \in Codes, r \in Reasons}
    \cup {NewMessage("protocol-error", i, None, None, 0, r) : i \in Ids, r \in Reasons}

MessageInputs == [fn : {"parse_message"}, message : Messages]

\* a JSON object that holds no `type` key: any of the other keys, each with a value
UntaggedFrames ==
    {Frame(h, "",
           IF "chatId" \in h THEN c ELSE None,
           IF "payload" \in h THEN p ELSE None,
           IF "code" \in h THEN k ELSE 0,
           IF "reason" \in h THEN r ELSE "") :
        h \in SUBSET {"chatId", "payload", "code", "reason"},
        c \in ChatIds, p \in Payloads, k \in Codes, r \in Reasons}

\* the texts parse_message may be given: the frames of the wire schema, the
\* start frame among them, the JSON objects without a type, and a text that is
\* no JSON object
WireFrames == ServerFrames \cup {StartMessage(c) : c \in ChatIds} \cup UntaggedFrames

ParseInputs == [fn : {"parse"}, frame : WireFrames, message_type : Variants]

\* payloads that are not representable as JSON: a non-finite number, and an
\* object of a class that is none of the JSON types
NonFinite == "NaN"

NotJsonValue == "object()"

Unserializable == {NonFinite, NotJsonValue}

\* what validates as the payload type JSON, the recursive sum of null, bool,
\* number, string, array and object: a float is a number, finite or not
ValidatesAsJSON(payload) == payload \in Payloads \cup {None, NonFinite}

\* json.dumps raises TypeError for an object it has no encoding for; with its
\* default allow_nan it writes a non-finite number as the token NaN
DumpsRaises(payload) == payload = NotJsonValue

create_data_message(chat_id, payload) ==
    IF ValidatesAsJSON(payload)
    THEN [err |-> NoError, message |-> DataMessage(chat_id, payload)]
    ELSE [err |-> ProtocolError("Can't create data message."), message |-> NotJson]

\* message.json() never raises JSONDecodeError, the one error the function
\* translates: what json.dumps raises leaves as it is
serialize_data_message(message) ==
    IF DumpsRaises(message.payload)
    THEN [err |-> TypeError, data |-> NotJson]
    ELSE [err |-> NoError, data |-> message]

SendInputs ==
    [fn : {"send_data_message"}, chat_id : ChatIds,
     payload : Payloads \cup {None} \cup Unserializable]

\* Client(url, **ctor).call(path, ..., **kwargs) up to websockets.connect
CallConnect ==
    /\ applied \in ClientInputs
    /\ returned = <<>>
    /\ LET client == ClientInit(applied.url, applied.ctor) IN
       returned' = IF client.err # NoError
                   THEN <<[err |-> client.err, url |-> <<>>, kwargs |-> NoKwargs]>>
                   ELSE <<ConnectArgs(client, applied.path, applied.kwargs)>>
    /\ UNCHANGED <<invocation, applied, request_message>>

\* parse_message(message.json(), type(message))
RoundTrip ==
    /\ applied \in MessageInputs
    /\ returned = <<>>
    /\ LET w == message_json(applied.message)
           r == parse_message(w, applied.message.type)
       IN  returned' = <<[ok |-> r.ok, msg |-> r.msg, id |-> ParseRawId(w), err |-> r.err]>>
    /\ UNCHANGED <<invocation, applied, request_message>>

\* parse_message(data, message_type) on a text off the wire
Parse ==
    /\ applied \in ParseInputs
    /\ returned = <<>>
    /\ returned' = <<parse_message(applied.frame, applied.message_type)>>
    /\ UNCHANGED <<invocation, applied, request_message>>

\* send_data_message(websocket, chat_id, payload) on an open connection:
\* create, serialize, websocket.send
SendData ==
    /\ applied \in SendInputs
    /\ returned = <<>>
    /\ LET message == create_data_message(applied.chat_id, applied.payload)
           text == serialize_data_message(message.message)
       IN  returned' =
             IF message.err # NoError THEN <<[err |-> message.err, written |-> <<>>]>>
             ELSE IF text.err # NoError THEN <<[err |-> text.err, written |-> <<>>]>>
             ELSE <<[err |-> NoError, written |-> <<text.data>>]>>
    /\ UNCHANGED <<invocation, applied, request_message>>

InitFunctions ==
    /\ NoInvocation
    /\ applied \in ClientInputs \cup MessageInputs \cup ParseInputs \cup SendInputs
    /\ returned = <<>>
    /\ request_message = None

NextFunctions ==
    \/ CallConnect
    \/ RoundTrip
    \/ Parse
    \/ SendData

SpecFunctions == InitFunctions /\ [][NextFunctions]_vars

\* the URL base with its trailing "/" removed when it has one
Untrailed(base, u) ==
    \/ endswith(base, "/") /\ base = u \o <<"/">>
    \/ ~endswith(base, "/") /\ base = u

\* the path with a "/" put in front when it has none
Led(path, p) ==
    \/ startswith(path, "/") /\ p = path
    \/ ~startswith(path, "/") /\ p = <<"/">> \o path

\* C25: the URL handed to the connect call is the base URL without its trailing
\* "/" (when it has one) followed by the path with a leading "/" (added when
\* it has none), for every base URL and every path.
C25_UrlComposition ==
    (applied \in ClientInputs /\ returned # <<>> /\ returned[1].err = NoError)
    => LET url == returned[1].url IN
       \E k \in 0..Len(url) :
          /\ Untrailed(applied.url, SubSeq(url, 1, k))
          /\ Led(applied.path, SubSeq(url, k + 1, Len(url)))

C25_Witness ==
    /\ applied \in ClientInputs
    /\ applied.url = <<"a", "/">>
    /\ applied.path = <<"a">>
    /\ returned # <<>>
    /\ returned[1].url = <<"a", "/", "a">>

Merged(ctor, kwargs) == [k \in Keys |-> IF kwargs[k] # None THEN kwargs[k] ELSE ctor[k]]

\* C27 as stated: the connect call gets the options given at construction,
\* each overridden by the option of the call with the same key.
C27_OptionsMerged ==
    (applied \in ClientInputs /\ returned # <<>>)
    => /\ returned[1].err = NoError
       /\ returned[1].kwargs = Merged(applied.ctor, applied.kwargs)

\* C27, amended: construction takes the base URL alone and fails with a
\* TypeError when it is given an option; after a construction without options
\* the connect call gets the options of the call, unchanged.
C27_CallOptionsForwarded ==
    (applied \in ClientInputs /\ returned # <<>>)
    => /\ applied.ctor # NoKwargs => returned[1].err = TypeError
       /\ applied.ctor = NoKwargs
            => /\ returned[1].err = NoError
               /\ returned[1].kwargs = applied.kwargs

C27_Witness ==
    /\ applied \in ClientInputs
    /\ applied.ctor = NoKwargs
    /\ applied.kwargs = [k \in Keys |-> IF k = "k1" THEN "v2" ELSE None]
    /\ returned # <<>>
    /\ returned[1].kwargs = applied.kwargs

\* C31: parse_message follows a fixed cascade.  A text that validates as the
\* expected variant is returned as that variant, with the text's fields;
\* otherwise one that validates as protocol-error raises ProtocolError (not the
\* invalid-message one); otherwise one that validates as app-error raises
\* AppError with its code and reason; otherwise ProtocolError("Invalid message
\* received.") is raised.  In particular a frame tagged as another non-error
\* variant than the expected one raises ProtocolError("Invalid message
\* received.").
C31_ParseCascade ==
    (applied \in ParseInputs /\ returned # <<>>)
    => LET f == applied.frame
           t == applied.message_type
           r == returned[1]
       IN  /\ Validates(f, t)
                => /\ r.ok
                   /\ r.err = NoError
                   /\ r.msg.type = t
                   /\ "chatId" \in f.has => r.msg.chatId = f.chatId
                   /\ "payload" \in f.has => r.msg.payload = f.payload
           /\ (~Validates(f, t) /\ Validates(f, "protocol-error"))
                => /\ ~r.ok
                   /\ r.err.kind = "ProtocolError"
                   /\ r.err \notin {INVALID_MESSAGE_ERROR, CONVERSATION_ERROR}
           /\ (~Validates(f, t) /\ ~Validates(f, "protocol-error")
                 /\ Validates(f, "app-error"))
                => /\ ~r.ok
                   /\ r.err = AppError(f.code, f.reason)
           /\ (~Validates(f, t) /\ ~Validates(f, "protocol-error")
                 /\ ~Validates(f, "app-error"))
                => /\ ~r.ok
                   /\ r.err = INVALID_MESSAGE_ERROR
           /\ (\E v \in {"start", "stop", "data", "stream-end"} : IsA(f, v) /\ v # t)
                => /\ ~r.ok
                   /\ r.err = INVALID_MESSAGE_ERROR

C31_Witness ==
    /\ applied \in ParseInputs
    /\ applied.frame = StopMessage("c1")
    /\ applied.message_type = "data"
    /\ returned # <<>>
    /\ returned[1].err = INVALID_MESSAGE_ERROR

\* C33: a text is accepted as a variant only when it holds a `type` key with
\* the variant's tag; a JSON object without a `type` key is accepted as no
\* variant and is not taken for a protocol-error or an app-error frame either:
\* it raises ProtocolError("Invalid message received.").
C33_TypeTagRequired ==
    (applied \in ParseInputs /\ returned # <<>>)
    => LET f == applied.frame
           t == applied.message_type
           r == returned[1]
       IN  /\ r.ok => IsA(f, t)
           /\ (f.json /\ "type" \notin f.has)
                => /\ ~r.ok
                   /\ r.err = INVALID_MESSAGE_ERROR

\* C39: a send of a payload that is not representable as JSON fails with
\* ProtocolError("Can't serialize data message.") and writes no frame.
C39_UnserializableRaises ==
    (applied \in SendInputs /\ returned # <<>> /\ applied.payload \in Unserializable)
    => /\ returned[1].err = ProtocolError("Can't serialize data message.")
       /\ returned[1].written = <<>>

(***************************************************************************)
(* operations.py: the request/reply dialect, without chat envelope         *)
(***************************************************************************)
\* the request frame: create_request_message, serialize_request_message
RequestMessage(id, payload) ==
    [json |-> TRUE, has |-> {"type", "id", "payload"}, type |-> "request",
     chatId |-> None, payload |-> payload, code |-> 0, reason |-> "", id |-> id]

\* the reply frame, which names the request it answers
ReplyMessage(request, payload) ==
    [json |-> TRUE, has |-> {"type", "request", "payload"}, type |-> "reply",
     chatId |-> None, payload |-> payload, code |-> 0, reason |-> "",
     request |-> request]

\* the frames of this dialect carry no chat id
StatelessData(payload) == Frame({"type", "payload"}, "data", None, payload, 0, "")

StatelessStreamEnd == Frame({"type"}, "stream-end", None, None, 0, "")

StatelessAppError(code, reason) ==
    Frame({"type", "code", "reason"}, "app-error", None, None, code, reason)

\* what a server may send to the operations module: the frames of its dialect,
\* the same frames with a chat id, and a text that is no JSON object
OperationFrames ==
    {ReplyMessage(i, p) : i \in Ids, p \in Payloads}
    \cup {StatelessData(p) : p \in Payloads}
    \cup {DataMessage(c, p) : c \in ChatIds, p \in Payloads}
    \cup {StatelessStreamEnd}
    \cup {StatelessAppError(k, r) : k \in Codes, r \in Reasons}
    \cup {AppErrorMessage(c, k, r) : c \in ChatIds, k \in Codes, r \in Reasons}
    \cup {NotJson}

\* the error for a reply that answers another request (the spec gives it no reason)
REPLY_ERROR == ProtocolError("Received reply to another request.")

\* parse_reply_message(data, request_id): parse as a reply, through the cascade
\* of parse_message, and match the reply to the request
parse_reply_message(f, request_id) ==
    IF f.json /\ ("type" \in f.has => f.type = "reply") /\ "request" \in f.has
    THEN IF f.request # request_id THEN Raise(REPLY_ERROR)
         ELSE Ok(ParseRaw(f, "reply"))
    ELSE IF Validates(f, "protocol-error")
         THEN Raise(ProtocolError(StrMessage(ParseRaw(f, "protocol-error"))))
    ELSE IF Validates(f, "app-error")
         THEN Raise(AppError(f.code, f.reason))
    ELSE Raise(INVALID_MESSAGE_ERROR)

\* the operations whose payloads come from a source
StreamInOps == {"operations.request_stream_in", "operations.request_stream_in_out"}

OperationsOps == {"operations.request", "operations.subscribe"} \cup StreamInOps

\* StreamEndMessage(**given): the class requires what BaseMessage requires
NewStreamEnd(given) ==
    IF Required("stream-end") \subseteq given
    THEN [err |-> NoError, frame |-> StatelessStreamEnd]
    ELSE [err |-> ValidationError, frame |-> NotJson]

InitOperations ==
    /\ op \in OperationsOps
    /\ data \in CASE op = "operations.request" -> {<<p>> : p \in Payloads}
                  [] op \in StreamInOps -> SeqsUpTo(Payloads, MaxSource)
                  [] OTHER -> {<<>>}
    /\ chatId = None
    /\ pc = "connect"
    /\ transport = "none"
    /\ peer = "open"
    /\ sender = NoTask
    /\ outbound = <<>>
    /\ received = <<>>
    /\ lastReadAt = "none"
    /\ yielded = <<>>
    /\ result = None
    /\ err = NoError
    /\ errPhase = "none"
    /\ connects = 0
    /\ applied = None
    /\ returned = <<>>
    /\ request_message = None

\* request builds its message, then both operations connect
OpConnect ==
    /\ pc = "connect"
    /\ IF op = "operations.request"
       THEN \E i \in Ids : request_message' = RequestMessage(i, data[1])
       ELSE UNCHANGED request_message
    /\ \/ /\ transport' = "open"
          /\ pc' = CASE op = "operations.request" -> "send"
                     [] op \in StreamInOps -> "sendStream"
                     [] OTHER -> "recvStream"
          /\ UNCHANGED <<err, errPhase>>
       \/ /\ transport' = "refused"
          /\ err' = TransportError
          /\ errPhase' = "connect"
          /\ pc' = "done"
    /\ connects' = connects + 1
    /\ UNCHANGED <<op, data, chatId, peer, sender, outbound, received,
                   lastReadAt, yielded, result, applied, returned>>

\* request: websocket.send(outgoing_data)
OpRequestSend ==
    /\ pc = "send"
    /\ IF CanWrite
       THEN /\ outbound' = Append(outbound, request_message)
            /\ pc' = "recv"
            /\ UNCHANGED <<err, errPhase>>
       ELSE /\ err' = TransportError
            /\ errPhase' = "body"
            /\ pc' = "closing"
            /\ UNCHANGED outbound
    /\ UNCHANGED <<other, op, data, chatId, transport, peer, sender, received,
                   lastReadAt, yielded, result, connects>>

\* request_stream_in, request_stream_in_out: one turn of the loop over the
\* payloads: create_request_message, serialize_request_message, websocket.send
OpStreamSend ==
    /\ pc = "sendStream"
    /\ Len(outbound) < Len(data)
    /\ IF CanWrite
       THEN /\ \E i \in Ids :
                 /\ request_message' = RequestMessage(i, data[Len(outbound) + 1])
                 /\ outbound' = Append(outbound, request_message')
            /\ UNCHANGED <<pc, err, errPhase>>
       ELSE /\ err' = TransportError
            /\ errPhase' = "body"
            /\ pc' = "closing"
            /\ UNCHANGED <<outbound, request_message>>
    /\ UNCHANGED <<applied, returned, op, data, chatId, transport, peer, sender,
                   received, lastReadAt, yielded, result, connects>>

\* past the loop: websocket.send(StreamEndMessage().json()); the read that
\* follows is reached only when the stream-end is written
OpStreamEnd ==
    /\ pc = "sendStream"
    /\ Len(outbound) = Len(data)
    /\ LET m == NewStreamEnd({}) IN
       IF m.err # NoError
       THEN /\ err' = m.err
            /\ errPhase' = "body"
            /\ pc' = "closing"
            /\ UNCHANGED outbound
       ELSE IF CanWrite
       THEN /\ outbound' = Append(outbound, m.frame)
            /\ pc' = IF op = "operations.request_stream_in" THEN "recv" ELSE "recvStream"
            /\ UNCHANGED <<err, errPhase>>
       ELSE /\ err' = TransportError
            /\ errPhase' = "body"
            /\ pc' = "closing"
            /\ UNCHANGED outbound
    /\ UNCHANGED <<other, op, data, chatId, transport, peer, sender, received,
                   lastReadAt, yielded, result, connects>>

\* request: websocket.recv(), the one frame it reads
OpRequestRecv ==
    /\ pc = "recv"
    /\ peer = "open"
    /\ \E f \in OperationFrames : received' = Append(received, f)
    /\ lastReadAt' = "recv"
    /\ pc' = "closing"
    /\ UNCHANGED <<other, op, data, chatId, transport, peer, sender, outbound,
                   yielded, result, err, errPhase, connects>>

\* subscribe: one turn of `async for incoming_data in websocket`
OpSubscribeRecv ==
    /\ pc = "recvStream"
    /\ peer = "open"
    /\ \E f \in OperationFrames :
         LET r == parse_data_message(f) IN
         /\ r.ok => Len(yielded) < MaxYield
         /\ received' = Append(received, f)
         /\ lastReadAt' = "recvStream"
         /\ IF r.ok
            THEN /\ yielded' = Append(yielded, r.msg.payload)
                 /\ UNCHANGED <<pc, err, errPhase>>
            ELSE /\ err' = r.err
                 /\ errPhase' = "body"
                 /\ pc' = "closing"
                 /\ UNCHANGED yielded
    /\ UNCHANGED <<other, op, data, chatId, transport, peer, sender, outbound,
                   result, connects>>

\* a read on a connection the server has closed: recv() raises; the iteration
\* ends after a clean close and raises after another
OpRecvClosed ==
    /\ pc \in {"recv", "recvStream"}
    /\ peer # "open"
    /\ IF pc = "recvStream" /\ peer = "closedOK"
       THEN UNCHANGED <<err, errPhase>>
       ELSE /\ err' = TransportError
            /\ errPhase' = "body"
    /\ pc' = "closing"
    /\ UNCHANGED <<other, op, data, chatId, transport, peer, sender, outbound,
                   received, lastReadAt, yielded, result, connects>>

\* the exit of `async with websockets.connect(...)`
OpClose ==
    /\ pc = "closing"
    /\ transport' = ConnectExit(transport)
    /\ pc' = IF op = "operations.request" /\ err = NoError THEN "parse" ELSE "done"
    /\ UNCHANGED <<other, op, data, chatId, peer, sender, outbound, received,
                   lastReadAt, yielded, result, err, errPhase, connects>>

\* request that returns the payload of whatever reply it read
OpRequestReturnAnyReply ==
    /\ pc = "parse"
    /\ LET f == Last(received)
           r == parse_reply_message(f, IF "request" \in f.has THEN f.request ELSE None)
       IN  IF r.ok
           THEN /\ result' = r.msg.payload
                /\ UNCHANGED <<err, errPhase>>
           ELSE /\ err' = r.err
                /\ errPhase' = "parse"
                /\ UNCHANGED result
    /\ pc' = "done"
    /\ UNCHANGED <<other, op, data, chatId, transport, peer, sender, outbound,
                   received, lastReadAt, yielded, connects>>

\* request: parse_reply_message(incoming_data, request_message.id).payload
OpRequestReturn ==
    /\ pc = "parse"
    /\ LET r == parse_reply_message(Last(received), request_message.id) IN
       IF r.ok
       THEN /\ result' = r.msg.payload
            /\ UNCHANGED <<err, errPhase>>
       ELSE /\ err' = r.err
            /\ errPhase' = "parse"
            /\ UNCHANGED result
    /\ pc' = "done"
    /\ UNCHANGED <<other, op, data, chatId, transport, peer, sender, outbound,
                   received, lastReadAt, yielded, connects>>

NextOperations ==
    \/ OpConnect
    \/ OpRequestSend
    \/ OpStreamSend
    \/ OpStreamEnd
    \/ OpRequestRecv
    \/ OpSubscribeRecv
    \/ OpRecvClosed
    \/ OpClose
    \/ OpRequestReturn
    \/ PeerCloses

SpecOperations == InitOperations /\ [][NextOperations]_vars

C29_SubscribeYieldsEveryData ==
    op = "operations.subscribe"
    => /\ (\A i \in 1..Len(received) : IsA(received[i], "data"))
            => /\ yielded = DataPayloads(received)
               /\ err.kind \notin {"ProtocolError", "AppError"}
       /\ (received # <<>> /\ IsA(Last(received), "app-error"))
            => err = AppError(Last(received).code, Last(received).reason)
       /\ (received # <<>> /\ Last(received) = NotJson) => err = INVALID_MESSAGE_ERROR

\* the request frames of the first n payloads of the source, whatever their ids
RequestFrames(frames, n) ==
    /\ Len(frames) >= n
    /\ \A i \in 1..n : IsA(frames[i], "request") /\ frames[i].payload = data[i]

\* C38: operations.request_stream_in and operations.request_stream_in_out write
\* one request frame per payload of the source, in its order, then one
\* stream-end frame, and read nothing before the stream-end is written; for
\* every finite source, the empty one included, an invocation whose transport
\* did not fail has ended with all of these frames written.
C38_StreamInWritesAll ==
    op \in StreamInOps
    => /\ Len(outbound) <= Len(data) + 1
       /\ RequestFrames(outbound, IF Len(outbound) <= Len(data) THEN Len(outbound)
                                  ELSE Len(data))
       /\ Len(outbound) = Len(data) + 1 => Last(outbound) = StatelessStreamEnd
       /\ received # <<>> => Len(outbound) = Len(data) + 1
       /\ (pc = "done" /\ err # TransportError)
            => /\ Len(outbound) = Len(data) + 1
               /\ err = NoError

====
